---- MODULE Spec2Model ----
(***************************************************************************)
(* Juice-Server (api/index.js): an Express service that inlines CSS with   *)
(* juice and remaps auto-generated element ids with cheerio.               *)
(*                                                                         *)
(* Text is modelled as a sequence of one-character strings, so that the    *)
(* prefix test of the selector [id^="i"], the "#" of a fragment link and   *)
(* the "id-" of a generated id are computed, not assumed.                  *)
(*                                                                         *)
(* An HTML document is a record                                            *)
(*   els   : the elements in document order, each a function from the      *)
(*           attribute names it carries to their values;                   *)
(*   rules : the id-selector rules of its <style> blocks, each a record    *)
(*           [sel, media] (media = the rule sits inside an @media block).  *)
(* The document without elements and rules stands for the empty string.    *)
(***************************************************************************)
EXTENDS Integers, Sequences, FiniteSets, TLC

VARIABLES
    docs,       \* <<input, output of run 1, output of run 2, ...>> of processHtml
    err,        \* message of the error the last processHtml run threw, or NoError
    uuid,       \* number of uuidv4() calls made so far by the process
    framework,  \* major version of the installed express (package.json: not pinned here)
    served,     \* number of requests received so far
    tmpl,       \* what fs.readFile("template.html") gave the request, or NotRead
    req,        \* the request being served, or NoRequest
    pc,         \* position of the request in the middleware chain
    res         \* headers set so far and the responses sent for the request

vars == <<docs, err, uuid, framework, served, tmpl, req, pc, res>>

-----------------------------------------------------------------------------
(* Bounds *)

MaxElems == 2       \* elements of an input document
MaxRuns == 2        \* consecutive processHtml runs over one document
MaxRequests == 2    \* requests served one after the other
MaxHttpElems == 1   \* elements of a document posted or read from template.html

-----------------------------------------------------------------------------
(* Text *)

Digits == <<"0", "1", "2", "3", "4", "5", "6", "7", "8", "9">>

RECURSIVE ToText(_)
ToText(n) == IF n < 10 THEN <<Digits[n + 1]>>
             ELSE ToText(n \div 10) \o <<Digits[(n % 10) + 1]>>

StartsWith(s, p) == Len(s) >= Len(p) /\ SubSeq(s, 1, Len(p)) = p

Contains(s, c) == \E k \in 1..Len(s) : s[k] = c

-----------------------------------------------------------------------------
(* Elements and attributes (cheerio's .attr) *)

HasAttr(el, a) == a \in DOMAIN el

\* $(el).attr(a) used as a condition: undefined and "" are falsy
AttrTruthy(el, a) == HasAttr(el, a) /\ Len(el[a]) > 0

\* $(el).attr(a, v)
SetAttr(el, a, v) == [x \in DOMAIN el \cup {a} |-> IF x = a THEN v ELSE el[x]]

NoAttrs == [x \in {} |-> <<>>]

EmptyDoc == [els |-> <<>>, rules |-> {}]

-----------------------------------------------------------------------------
(* processHtml, step 1: juice *)

\* juice(htmlContent, {applyStyleTags, removeStyleTags, preserveMediaQueries}):
\* an unconditional rule is inlined into the style attribute of the elements it
\* selects and dropped; a rule inside @media is kept in the residual <style>.
Juice(doc) ==
    [els |-> [k \in DOMAIN doc.els |->
                 IF /\ HasAttr(doc.els[k], "id")
                    /\ \E r \in doc.rules : ~r.media /\ r.sel = doc.els[k]["id"]
                 THEN SetAttr(doc.els[k], "style", <<"c">>)
                 ELSE doc.els[k]],
     rules |-> {r \in doc.rules : r.media}]

-----------------------------------------------------------------------------
(* processHtml, step 2: id remapping *)

Uuidv4Collides(n) == <<"0">>

\* uuidv4(): modelled as the decimal text of a fresh process-wide counter
\* (a version-4 UUID repeats with probability about 2^-122)
uuidv4(n) == ToText(n)

NewId(n) == <<"i", "d", "-">> \o uuidv4(n)

IsAutoIdNotGenerated(id) == StartsWith(id, <<"i">>) /\ ~StartsWith(id, <<"i", "d", "-">>)

\* the selector [id^="i"]
IsAutoId(id) == StartsWith(id, <<"i">>)

\* $('[id^="i"]'): the matched set is computed once, before .each runs
AutoElems(els) ==
    {k \in DOMAIN els : HasAttr(els[k], "id") /\ IsAutoId(els[k]["id"])}

\* the selector text  [href="#${oldId}"], [for="${oldId}"]  parses unless oldId
\* closes the quoted value early
SelectorParses(oldId) == ~Contains(oldId, "\"")

\* an element matched by  [href="#oldId"], [for="oldId"]
RefMatches(el, oldId) ==
    \/ HasAttr(el, "href") /\ el["href"] = <<"#">> \o oldId
    \/ HasAttr(el, "for") /\ el["for"] = oldId

RewriteRefHrefOnly(el, newId) ==
    IF AttrTruthy(el, "href") THEN SetAttr(el, "href", <<"#">> \o newId) ELSE el

\* the inner .each callback: each of href and for that the matched element
\* carries with a truthy value is overwritten, whichever of the two matched
RewriteRef(el, newId) ==
    LET e1 == IF AttrTruthy(el, "href")
              THEN SetAttr(el, "href", <<"#">> \o newId) ELSE el
    IN  IF AttrTruthy(e1, "for") THEN SetAttr(e1, "for", newId) ELSE e1

UpdateRefs(els, oldId, newId) ==
    [j \in DOMAIN els |->
        IF RefMatches(els[j], oldId) THEN RewriteRef(els[j], newId) ELSE els[j]]

\* the outer .each over the matched set, in document order, from position k
RECURSIVE EachAuto(_, _, _, _)
EachAuto(els, sel, k, n) ==
    IF k > Len(els) THEN [threw |-> FALSE, els |-> els, uuid |-> n]
    ELSE IF k \notin sel THEN EachAuto(els, sel, k + 1, n)
    ELSE LET oldId == els[k]["id"]
             newId == NewId(n)
             els1 == [els EXCEPT ![k] = SetAttr(@, "id", newId)]
         IN  IF ~SelectorParses(oldId)
             THEN [threw |-> TRUE, els |-> els1, uuid |-> n + 1]
             ELSE EachAuto(UpdateRefs(els1, oldId, newId), sel, k + 1, n + 1)

-----------------------------------------------------------------------------
(* JavaScript values handed to processHtml and held in req.body *)

Undefined == [type |-> "undefined"]
StringValue(doc) == [type |-> "string", doc |-> doc]
ObjectValue(isEmpty) == [type |-> "object", empty |-> isEmpty]

\* !v is false: objects (also {}) and non-empty strings
Truthy(v) == v.type = "object" \/ (v.type = "string" /\ v.doc # EmptyDoc)

NoError == "none"

\* processHtml(htmlContent), with n uuidv4() calls made before it.
\* started: juice was called; html: the value returned (none when it throws).
processHtml(htmlContent, n) ==
    IF ~Truthy(htmlContent)
    THEN [threw |-> TRUE, message |-> "HTML content is required", code |-> "none",
          started |-> FALSE, html |-> <<>>, uuid |-> n]
    ELSE IF htmlContent.type # "string"
    THEN \* juice runs String.prototype.replace on its argument
         [threw |-> TRUE, message |-> "html.replace is not a function", code |-> "none",
          started |-> TRUE, html |-> <<>>, uuid |-> n]
    ELSE LET inlined == Juice(htmlContent.doc)
             r == EachAuto(inlined.els, AutoElems(inlined.els), 1, n)
         IN  IF r.threw
             THEN [threw |-> TRUE, message |-> "Attribute selector didn't terminate",
                   code |-> "none", started |-> TRUE, html |-> <<>>, uuid |-> r.uuid]
             ELSE [threw |-> FALSE, message |-> NoError, code |-> "none",
                   started |-> TRUE,
                   html |-> <<[els |-> r.els, rules |-> inlined.rules]>>,
                   uuid |-> r.uuid]

-----------------------------------------------------------------------------
(* Input documents *)

T(a, b) == <<a, b>>

IdValues == {T("i", "1"), T("i", "2"), T("a", "1")}
HrefValues == {<<"#", "i", "1">>}
ForValues == {T("i", "1"), T("i", "2")}
AriaValues == {T("i", "1")}
RuleValues == {[sel |-> T("i", "1"), media |-> m] : m \in BOOLEAN}
\* no <style> block, or one with an unconditional and a media rule for #i1
RuleSets == {{}, RuleValues}

Opt(a, vals) == {NoAttrs} \cup {[x \in {a} |-> v] : v \in vals}

Merge(f, g) == [x \in DOMAIN f \cup DOMAIN g |-> IF x \in DOMAIN f THEN f[x] ELSE g[x]]

Elements ==
    {Merge(Merge(i, h), Merge(f, a)) :
        i \in Opt("id", IdValues), h \in Opt("href", HrefValues),
        f \in Opt("for", ForValues), a \in Opt("aria-labelledby", AriaValues)}

SeqsUpTo(S, n) == UNION {[1..k -> S] : k \in 0..n}

InputEls == SeqsUpTo(Elements, MaxElems)

-----------------------------------------------------------------------------
(* The transform on its own: consecutive runs over one document *)

NoRequest == [method |-> "none"]
NotRead == [code |-> "none"]
NoResponse == [headers |-> NoAttrs, sends |-> <<>>, started |-> FALSE]

Init ==
    /\ \E e \in InputEls, r \in RuleSets : docs = <<[els |-> e, rules |-> r]>>
    /\ err = NoError
    /\ uuid = 0
    /\ framework = 4
    /\ served = 0
    /\ tmpl = NotRead
    /\ req = NoRequest
    /\ pc = "idle"
    /\ res = NoResponse

Last(s) == s[Len(s)]

\* one call processHtml(text), text being the input or the previous run's output
Invoke ==
    /\ err = NoError
    /\ Len(docs) <= MaxRuns
    /\ LET r == processHtml(StringValue(Last(docs)), uuid)
       IN  /\ uuid' = r.uuid
           /\ IF r.threw
              THEN err' = r.message /\ UNCHANGED docs
              ELSE docs' = Append(docs, r.html[1]) /\ UNCHANGED err
    /\ UNCHANGED <<framework, served, tmpl, req, pc, res>>

Next == Invoke

Spec == Init /\ [][Next]_vars

-----------------------------------------------------------------------------
(* Requests *)

Paths == {"/", "/download", "/process", "/process-download", "/other"}
ContentTypes == {"text/html", "application/json", "text/plain"}
\* the X-Filename request header; "" stands for a header that is absent or empty
XFilenames == {"", "report.html"}
ExpressMajors == {4, 5}

HttpElements ==
    {Merge(i, Merge(h, f)) :
        i \in Opt("id", {T("i", "1"), T("a", "1"), T("i", "\"")}),
        h \in Opt("href", HrefValues),
        f \in Opt("for", {T("i", "1")})}

HttpDocs == {[els |-> e, rules |-> {}] : e \in SeqsUpTo(HttpElements, MaxHttpElems)}

\* the body on the wire: none (no Content-Length), of length 0, over 50 MB,
\* HTML text, or the text of a JSON object
Payloads ==
    {[kind |-> k] : k \in {"missing", "empty", "oversize", "json"}}
        \cup {[kind |-> "html", doc |-> d] : d \in HttpDocs \ {EmptyDoc}}

\* text that is not markup parses to a document of attribute-less elements
PlainText == [els |-> <<NoAttrs>>, rules |-> {}]

TextOf(payload) ==
    CASE payload.kind = "empty" -> EmptyDoc
      [] payload.kind = "html" -> payload.doc
      [] OTHER -> PlainText

Requests ==
    {[method |-> m, path |-> p, ctype |-> "text/plain", payload |-> [kind |-> "missing"],
      xfilename |-> "", body |-> Undefined, parsed |-> FALSE] :
        m \in {"GET", "OPTIONS"}, p \in Paths}
    \cup
    {[method |-> "POST", path |-> p, ctype |-> c, payload |-> b,
      xfilename |-> x, body |-> Undefined, parsed |-> FALSE] :
        p \in Paths, c \in ContentTypes, b \in Payloads, x \in XFilenames}

\* what fs.readFile(templatePath, "utf8") can give
ReadOutcomes ==
    {[code |-> c] : c \in {"ENOENT", "EACCES"}} \cup {[code |-> "ok", doc |-> d] : d \in HttpDocs}

-----------------------------------------------------------------------------
(* Responses *)

NoBody ==
    [keys |-> {}, success |-> "absent", error |-> "", message |-> "",
     html |-> <<>>, filename |-> "", text |-> ""]

\* res.header(name, value) / res.set(name, value)
SetHeader(r, name, value) == [r EXCEPT !.headers = SetAttr(@, name, value)]

DefaultType(r, type) ==
    IF "Content-Type" \in DOMAIN r.headers THEN r ELSE SetHeader(r, "Content-Type", type)

\* the response goes out with the headers set so far
Send(r, by, status, body) ==
    [r EXCEPT !.sends = Append(@, [by |-> by, status |-> status,
                                   headers |-> r.headers, body |-> body])]

\* res.status(status).json(obj)
SendJson(r, by, status, body) == Send(DefaultType(r, "application/json"), by, status, body)

\* res.status(status).send(text)
SendText(r, by, status, body) == Send(DefaultType(r, "text/html"), by, status, body)

-----------------------------------------------------------------------------
(* Route handlers: the value is the response state after the handler, whether *)
(* it called next(err), and the uuid counter                                  *)

TemplateCatchAlways404(r, code, hint) ==
    [res |-> SendJson(r, "route", 404,
                      [NoBody EXCEPT !.keys = {"error", "message"},
                                     !.error = "Template file not found",
                                     !.message = hint]),
     next |-> FALSE]

\* the catch block of the two GET handlers
TemplateCatch(r, code, hint) ==
    IF code = "ENOENT"
    THEN [res |-> SendJson(r, "route", 404,
                           [NoBody EXCEPT !.keys = {"error", "message"},
                                          !.error = "Template file not found",
                                          !.message = hint]),
          next |-> FALSE]
    ELSE [res |-> r, next |-> TRUE]

Started(r, p) == [r EXCEPT !.started = @ \/ p.started]

\* app.get("/"), t being what readFile gave
GetRootHandler(r, t, n) ==
    IF t.code # "ok"
    THEN TemplateCatch(r, t.code,
             "Use POST /process endpoint to process HTML content via API") @@ [uuid |-> n]
    ELSE LET p == processHtml(StringValue(t.doc), n)
         IN  IF p.threw
             THEN TemplateCatch(Started(r, p), p.code,
                      "Use POST /process endpoint to process HTML content via API")
                  @@ [uuid |-> p.uuid]
             ELSE [res |-> SendText(SetHeader(Started(r, p), "Content-Type", "text/html"),
                                    "route", 200, [NoBody EXCEPT !.html = p.html]),
                   next |-> FALSE, uuid |-> p.uuid]

Attachment(filename) == <<"attachment", filename>>

\* app.get("/download")
GetDownloadHandler(r, t, n) ==
    IF t.code # "ok"
    THEN TemplateCatch(r, t.code,
             "Use POST /process-download endpoint to process HTML content via API")
         @@ [uuid |-> n]
    ELSE LET p == processHtml(StringValue(t.doc), n)
         IN  IF p.threw
             THEN TemplateCatch(Started(r, p), p.code,
                      "Use POST /process-download endpoint to process HTML content via API")
                  @@ [uuid |-> p.uuid]
             ELSE [res |-> SendText(
                              SetHeader(SetHeader(Started(r, p), "Content-Type",
                                                  "text/html; charset=UTF-8"),
                                        "Content-Disposition", Attachment("newsletter.html")),
                              "route", 200, [NoBody EXCEPT !.html = p.html]),
                   next |-> FALSE, uuid |-> p.uuid]

\* req.headers['x-filename'] || 'newsletter.html'
Filename(rq) == IF rq.xfilename # "" THEN rq.xfilename ELSE "newsletter.html"

\* the catch block of the two POST handlers
ProcessingError(r, message) ==
    SendJson(r, "route", 500,
             [NoBody EXCEPT !.keys = {"success", "error", "message"},
                            !.success = "false",
                            !.error = "Failed to process HTML",
                            !.message = message])

NoContent(r) ==
    SendJson(r, "route", 400,
             [NoBody EXCEPT !.keys = {"error"}, !.error = "No HTML content provided"])

\* app.post("/process")
PostProcessHandler(r, rq, n) ==
    LET p == processHtml(rq.body, n)
    IN  IF ~Truthy(rq.body)
        THEN [res |-> NoContent(r), next |-> FALSE, uuid |-> n]
        ELSE IF p.threw
        THEN [res |-> ProcessingError(Started(r, p), p.message),
              next |-> FALSE, uuid |-> p.uuid]
        ELSE [res |-> SendJson(Started(r, p), "route", 200,
                               [NoBody EXCEPT !.keys = {"success", "html", "filename"},
                                              !.success = "true",
                                              !.html = p.html,
                                              !.filename = Filename(rq)]),
              next |-> FALSE, uuid |-> p.uuid]

PostProcessDownloadHeadersFirst(r, rq, n) ==
    LET p == processHtml(rq.body, n)
        h == SetHeader(SetHeader(Started(r, p), "Content-Type", "text/html; charset=UTF-8"),
                       "Content-Disposition", Attachment(Filename(rq)))
    IN  IF ~Truthy(rq.body)
        THEN [res |-> NoContent(r), next |-> FALSE, uuid |-> n]
        ELSE IF p.threw
        THEN [res |-> ProcessingError(h, p.message), next |-> FALSE, uuid |-> p.uuid]
        ELSE [res |-> SendText(h, "route", 200, [NoBody EXCEPT !.html = p.html]),
              next |-> FALSE, uuid |-> p.uuid]

\* app.post("/process-download")
PostProcessDownloadHandler(r, rq, n) ==
    LET p == processHtml(rq.body, n)
    IN  IF ~Truthy(rq.body)
        THEN [res |-> NoContent(r), next |-> FALSE, uuid |-> n]
        ELSE IF p.threw
        THEN [res |-> ProcessingError(Started(r, p), p.message),
              next |-> FALSE, uuid |-> p.uuid]
        ELSE [res |-> SendText(
                         SetHeader(SetHeader(Started(r, p), "Content-Type",
                                             "text/html; charset=UTF-8"),
                                   "Content-Disposition", Attachment(Filename(rq))),
                         "route", 200, [NoBody EXCEPT !.html = p.html]),
              next |-> FALSE, uuid |-> p.uuid]

-----------------------------------------------------------------------------
(* The middleware chain, in the order of the app.use / app.get / app.post calls *)

InitHttp ==
    /\ docs = <<EmptyDoc>>
    /\ err = NoError
    /\ uuid = 0
    /\ framework \in ExpressMajors
    /\ served = 0
    /\ tmpl = NotRead
    /\ req = NoRequest
    /\ pc = "idle"
    /\ res = NoResponse

\* a request arrives
Receive ==
    /\ pc = "idle"
    /\ served < MaxRequests
    /\ \E rq \in Requests : req' = rq
    /\ served' = served + 1
    /\ pc' = "morgan"
    /\ UNCHANGED <<docs, err, uuid, framework, tmpl, res>>

\* the request/response cycle is over: nothing of it is kept but the uuid source
Close ==
    /\ pc = "done"
    /\ req' = NoRequest
    /\ tmpl' = NotRead
    /\ res' = NoResponse
    /\ pc' = "idle"
    /\ UNCHANGED <<docs, err, uuid, framework, served>>

\* morgan("dev"): logs and calls next()
Morgan ==
    /\ pc = "morgan"
    /\ pc' = "text"
    /\ UNCHANGED <<docs, err, uuid, framework, served, tmpl, req, res>>

HasBody(rq) == rq.payload.kind # "missing"

\* body-parser 1.x (express 4) starts every parser with req.body = req.body || {};
\* body-parser 2.x (express 5) leaves req.body undefined until a body is parsed
BodyDefault(rq, major) ==
    IF major = 4 /\ rq.body = Undefined THEN [rq EXCEPT !.body = ObjectValue(TRUE)] ELSE rq

\* express.text({ limit: '50mb', type: 'text/html' })
TextParser ==
    /\ pc = "text"
    /\ LET rq == BodyDefault(req, framework)
       IN  IF rq.parsed \/ ~HasBody(rq) \/ rq.ctype # "text/html"
           THEN req' = rq /\ pc' = "json"
           ELSE IF rq.payload.kind = "oversize"
           THEN req' = rq /\ pc' = "error"
           ELSE /\ req' = [rq EXCEPT !.body = StringValue(TextOf(rq.payload)),
                                     !.parsed = TRUE]
                /\ pc' = "json"
    /\ UNCHANGED <<docs, err, uuid, framework, served, tmpl, res>>

\* express.json({ limit: '50mb' }): an empty body parses to {}, anything that is
\* not the text of an object or array is a syntax error
JsonParser ==
    /\ pc = "json"
    /\ LET rq == BodyDefault(req, framework)
       IN  IF rq.parsed \/ ~HasBody(rq) \/ rq.ctype # "application/json"
           THEN req' = rq /\ pc' = "cors"
           ELSE IF rq.payload.kind \in {"oversize", "html"}
           THEN req' = rq /\ pc' = "error"
           ELSE /\ req' = [rq EXCEPT !.body = ObjectValue(rq.payload.kind = "empty"),
                                     !.parsed = TRUE]
                /\ pc' = "cors"
    /\ UNCHANGED <<docs, err, uuid, framework, served, tmpl, res>>

CorsHeaders(r) ==
    SetHeader(
        SetHeader(
            SetHeader(r, "Access-Control-Allow-Origin", "*"),
            "Access-Control-Allow-Methods", "GET, POST, PUT, DELETE, OPTIONS"),
        "Access-Control-Allow-Headers",
        "Origin, X-Requested-With, Content-Type, Accept, Authorization, X-Filename")

\* the CORS middleware
Cors ==
    /\ pc = "cors"
    /\ IF req.method = "OPTIONS"
       THEN /\ res' = Send(DefaultType(CorsHeaders(res), "text/plain"), "cors", 200,
                           [NoBody EXCEPT !.text = "OK"])
            /\ pc' = "done"
       ELSE /\ res' = CorsHeaders(res)
            /\ pc' = "route"
    /\ UNCHANGED <<docs, err, uuid, framework, served, tmpl, req>>

Routed(h) ==
    /\ res' = h.res
    /\ uuid' = h.uuid
    /\ pc' = IF h.next THEN "error" ELSE "done"
    /\ UNCHANGED <<docs, err, framework, served, req>>

GetRoot ==
    /\ pc = "route" /\ req.method = "GET" /\ req.path = "/"
    /\ \E t \in ReadOutcomes : tmpl' = t /\ Routed(GetRootHandler(res, t, uuid))

GetDownload ==
    /\ pc = "route" /\ req.method = "GET" /\ req.path = "/download"
    /\ \E t \in ReadOutcomes : tmpl' = t /\ Routed(GetDownloadHandler(res, t, uuid))

PostProcess ==
    /\ pc = "route" /\ req.method = "POST" /\ req.path = "/process"
    /\ Routed(PostProcessHandler(res, req, uuid))
    /\ UNCHANGED tmpl

PostProcessDownload ==
    /\ pc = "route" /\ req.method = "POST" /\ req.path = "/process-download"
    /\ Routed(PostProcessDownloadHandler(res, req, uuid))
    /\ UNCHANGED tmpl

Endpoints ==
    {<<"GET", "/">>, <<"GET", "/download">>,
     <<"POST", "/process">>, <<"POST", "/process-download">>}

\* no route matches: express answers 404 itself, with the headers set so far
NoRoute ==
    /\ pc = "route" /\ <<req.method, req.path>> \notin Endpoints
    /\ res' = Send(SetHeader(res, "Content-Type", "text/html; charset=utf-8"),
                   "express", 404, [NoBody EXCEPT !.text = "Cannot " \o req.method])
    /\ pc' = "done"
    /\ UNCHANGED <<docs, err, uuid, framework, served, tmpl, req>>

\* the error handler: app.use((err, req, res, next) => ...)
ErrorHandler ==
    /\ pc = "error"
    /\ res' = SendText(res, "errorHandler", 500,
                       [NoBody EXCEPT !.text = "Internal Server Error"])
    /\ pc' = "done"
    /\ UNCHANGED <<docs, err, uuid, framework, served, tmpl, req>>

NextHttp ==
    \/ Receive
    \/ Morgan
    \/ TextParser
    \/ JsonParser
    \/ Cors
    \/ GetRoot
    \/ GetDownload
    \/ PostProcess
    \/ PostProcessDownload
    \/ NoRoute
    \/ ErrorHandler
    \/ Close

SpecHttp == InitHttp /\ [][NextHttp]_vars

-----------------------------------------------------------------------------
(* Properties of the transform *)

HasPrefixI(id) == Len(id) >= 1 /\ id[1] = "i"

AttrIs(el, a, v) == a \in DOMAIN el /\ el[a] = v

\* the runs of processHtml that returned: run r took docs[r] and returned docs[r + 1]
Runs == 1..(Len(docs) - 1)

\* element k of document d carries an id the remapping applies to
Remapped(d, k) == "id" \in DOMAIN d.els[k] /\ HasPrefixI(d.els[k]["id"])

Fragment(id) == <<"#">> \o id

\* C1: after a run of processHtml, every element whose original id begins with
\* "i" carries a new id that differs from its original id and from the id of
\* every other element of the output, remapped or not, also when two elements
\* of the input share an original id.
C1_FreshUniqueIds ==
    \A r \in Runs :
        LET in == docs[r]
            out == docs[r + 1]
        IN  \A k \in DOMAIN in.els :
                Remapped(in, k) =>
                    /\ "id" \in DOMAIN out.els[k]
                    /\ out.els[k]["id"] # in.els[k]["id"]
                    /\ \A j \in DOMAIN out.els :
                           j # k => ~AttrIs(out.els[j], "id", out.els[k]["id"])

\* a run returned for an input in which two elements share an auto-generated id
C1_Witness ==
    /\ Len(docs) >= 2
    /\ \E k, j \in DOMAIN docs[1].els :
           /\ k # j
           /\ Remapped(docs[1], k)
           /\ AttrIs(docs[1].els[j], "id", docs[1].els[k]["id"])

\* C2: after a run of processHtml, every href that was "#X" and every for that
\* was "X", X the original id of a remapped element, holds the new id of an
\* element that carried X, the same one for all references to X.
C2_ReferencesFollow ==
    \A r \in Runs :
        LET in == docs[r]
            out == docs[r + 1]
        IN  \A k \in DOMAIN in.els :
                Remapped(in, k) =>
                    \E t \in DOMAIN in.els :
                        /\ AttrIs(in.els[t], "id", in.els[k]["id"])
                        /\ \A j \in DOMAIN in.els :
                            /\ AttrIs(in.els[j], "href", Fragment(in.els[k]["id"]))
                                 => AttrIs(out.els[j], "href", Fragment(out.els[t]["id"]))
                            /\ AttrIs(in.els[j], "for", in.els[k]["id"])
                                 => AttrIs(out.els[j], "for", out.els[t]["id"])

\* the value of attribute a of element j refers to no remapped element of d
RefersToNoRemapped(d, j, a) ==
    \A k \in DOMAIN d.els :
        Remapped(d, k) =>
            d.els[j][a] # (IF a = "href" THEN Fragment(d.els[k]["id"]) ELSE d.els[k]["id"])

\* C3: a run of processHtml leaves as they were every id that does not begin
\* with "i", every href that is not "#X" and every for that is not "X" for a
\* remapped original id X, also on an element whose other reference attribute
\* does refer to a remapped id.
C3_OthersUntouched ==
    \A r \in Runs :
        LET in == docs[r]
            out == docs[r + 1]
        IN  \A j \in DOMAIN in.els :
                /\ ("id" \in DOMAIN in.els[j] /\ ~HasPrefixI(in.els[j]["id"]))
                      => AttrIs(out.els[j], "id", in.els[j]["id"])
                /\ \A a \in {"href", "for"} :
                      (a \in DOMAIN in.els[j] /\ RefersToNoRemapped(in, j, a))
                          => AttrIs(out.els[j], a, in.els[j][a])

\* C9: a run of processHtml over the output of a previous run gives every
\* element remapped by the previous run an id different from the one that run
\* gave it, and every href and for that pointed at such an element points at
\* its id of after the second run.
C9_SecondRunRemapsAgain ==
    \A r \in Runs :
        r >= 2 =>
            LET orig == docs[r - 1]
                in == docs[r]
                out == docs[r + 1]
            IN  \A k \in DOMAIN orig.els :
                    Remapped(orig, k) =>
                        /\ "id" \in DOMAIN out.els[k]
                        /\ out.els[k]["id"] # in.els[k]["id"]
                        /\ out.els[k]["id"] # orig.els[k]["id"]
                        /\ \A j \in DOMAIN in.els :
                            /\ AttrIs(in.els[j], "href", Fragment(in.els[k]["id"]))
                                 => AttrIs(out.els[j], "href", Fragment(out.els[k]["id"]))
                            /\ AttrIs(in.els[j], "for", in.els[k]["id"])
                                 => AttrIs(out.els[j], "for", out.els[k]["id"])

\* two runs returned, and the first remapped an element that an href and a for
\* of its output pointed at
C9_Witness ==
    /\ Len(docs) >= 3
    /\ \E k, j, l \in DOMAIN docs[2].els :
           /\ Remapped(docs[1], k)
           /\ AttrIs(docs[2].els[j], "href", Fragment(docs[2].els[k]["id"]))
           /\ AttrIs(docs[2].els[l], "for", docs[2].els[k]["id"])

-----------------------------------------------------------------------------
(* Properties of the HTTP surface *)

Answered == pc = "done"

ToProcess == req.method = "POST" /\ req.path \in {"/process", "/process-download"}

ToTemplate == req.method = "GET" /\ req.path \in {"/", "/download"}

\* the transform throws on value v (whether it does is independent of the uuid counter)
Throws(v) == processHtml(v, 0).threw

\* C4 as claimed: a POST to /process or /process-download whose body is empty
\* or missing, whatever its Content-Type, is answered 400 with
\* {error: "No HTML content provided"} and never starts the transform.
C4_EmptyBodyRejected ==
    (ToProcess /\ req.payload.kind \in {"missing", "empty"}) =>
        /\ ~res.started
        /\ Answered =>
              /\ Len(res.sends) = 1
              /\ res.sends[1].status = 400
              /\ res.sends[1].body.keys = {"error"}
              /\ res.sends[1].body.error = "No HTML content provided"

\* document out is document in with every auto-generated id replaced and no
\* href or for left on an old id
Complete(in, out) ==
    /\ Len(out.els) = Len(in.els)
    /\ \A k \in DOMAIN in.els :
           Remapped(in, k) =>
               /\ "id" \in DOMAIN out.els[k]
               /\ out.els[k]["id"] # in.els[k]["id"]
               /\ \A j \in DOMAIN out.els :
                      /\ ~AttrIs(out.els[j], "href", Fragment(in.els[k]["id"]))
                      /\ ~AttrIs(out.els[j], "for", in.els[k]["id"])

SuccessResponse(s) ==
    /\ s.status = 200
    /\ s.body.html # <<>>
    /\ req.body.type = "string"
    /\ Complete(req.body.doc, s.body.html[1])
    /\ s.body.success # "false"

ErrorResponse(s) ==
    /\ s.status >= 400
    /\ s.body.html = <<>>
    /\ s.body.success # "true"
    /\ "Content-Disposition" \notin DOMAIN s.headers

ProcessingPath(s) == s.by = "route" \/ (s.by = "errorHandler" /\ tmpl # NotRead)

\* C6 as claimed: on the four endpoints every error response of the processing
\* path (empty input, missing template, failure of the transform) is JSON with
\* success false, an error label and a message.
C6_StructuredErrors ==
    (req # NoRequest /\ <<req.method, req.path>> \in Endpoints) =>
        \A k \in DOMAIN res.sends :
            (res.sends[k].status >= 400 /\ ProcessingPath(res.sends[k])) =>
                /\ {"success", "error", "message"} \subseteq res.sends[k].body.keys
                /\ res.sends[k].body.success = "false"

\* C7 as claimed: every response carries the three CORS headers.
C7_CorsOnEveryResponse ==
    \A k \in DOMAIN res.sends :
        /\ AttrIs(res.sends[k].headers, "Access-Control-Allow-Origin", "*")
        /\ "Access-Control-Allow-Methods" \in DOMAIN res.sends[k].headers
        /\ "Access-Control-Allow-Headers" \in DOMAIN res.sends[k].headers

====
